---- MODULE Spec2Model ----
(***************************************************************************)
(* md_slash: a Python-Markdown preprocessor that turns a trailing          *)
(* backslash at the end of a line into an HTML <br>, together with the     *)
(* extension object that registers it.                                     *)
(*                                                                         *)
(* A string is a sequence of one-character strings; a document is a        *)
(* sequence of strings.  One invocation of TrailingSlashPreprocessor.run   *)
(* is a small process: it enters (new_lines = []), takes one step per line *)
(* of the for loop, and returns.  Invocations are indexed by the thread    *)
(* of the host that makes them; the locals of run are per invocation.      *)
(***************************************************************************)
EXTENDS Naturals, Sequences, FiniteSets

VARIABLES
    ext,            \* the extension instance makeExtension returned (<<>> before)
    preprocessors,  \* md.preprocessors: the entries registered by extendMarkdown
    pc,             \* per thread: "idle", "loop" (inside run), "done" (run returned)
    lines,          \* per thread: the list passed to run
    new_lines,      \* per thread: the local list run builds and returns
    i               \* per thread: position of the for loop in lines (1-based)

vars == <<ext, preprocessors, pc, lines, new_lines, i>>

(***************************************************************************)
(* Bounds of the model.                                                    *)
(***************************************************************************)
MaxChars == 4       \* total number of characters of a document
MaxLines == 3       \* number of lines of a document
ConcMaxLines == 2   \* number of lines of a document in the concurrent model

Chars == {"\\", "a", " "}
ConcLineSet == {<<>>, <<"\\">>, <<"a">>}
KwargsSet == {{}, {[key |-> "priority", value |-> 30]}}

RECURSIVE StringsUpTo(_)
StringsUpTo(n) ==
    IF n = 0 THEN {<<>>}
    ELSE LET shorter == StringsUpTo(n - 1)
         IN  shorter \cup {Append(s, c) : s \in {x \in shorter : Len(x) = n - 1}, c \in Chars}

RECURSIVE DocsWithin(_, _)
DocsWithin(k, n) ==
    IF k = 0 THEN {<<>>}
    ELSE {<<>>} \cup
         UNION {{<<s>> \o d : d \in DocsWithin(k - 1, n - Len(s))} : s \in StringsUpTo(n)}

Docs == DocsWithin(MaxLines, MaxChars)

RECURSIVE ConcDocsWithin(_)
ConcDocsWithin(k) ==
    IF k = 0 THEN {<<>>}
    ELSE {<<>>} \cup {<<s>> \o d : s \in ConcLineSet, d \in ConcDocsWithin(k - 1)}

ConcDocs == ConcDocsWithin(ConcMaxLines)

(***************************************************************************)
(* Strings.  A definition that models the code may be preceded by a        *)
(* variant of it: the definition as a slip in the code would have it.  The *)
(* theorems at the end hold of the code and fail for the variants.         *)
(***************************************************************************)
endswithStripped(s, suffix) ==
    LET RECURSIVE rstrip(_)
        rstrip(x) == IF x # <<>> /\ x[Len(x)] = " " THEN rstrip(SubSeq(x, 1, Len(x) - 1)) ELSE x
        r == rstrip(s)
    IN  /\ Len(r) >= Len(suffix)
        /\ SubSeq(r, Len(r) - Len(suffix) + 1, Len(r)) = suffix

\* str.endswith(suffix)
endswith(s, suffix) ==
    /\ Len(s) >= Len(suffix)
    /\ SubSeq(s, Len(s) - Len(suffix) + 1, Len(s)) = suffix

RECURSIVE DropLastAll(_)
DropLastAll(line) ==
    IF line # <<>> /\ line[Len(line)] = "\\"
    THEN DropLastAll(SubSeq(line, 1, Len(line) - 1))
    ELSE line

\* line[:-1]
DropLast(line) == SubSeq(line, 1, Len(line) - 1)

\* the literal "<br>"
BreakMarker == <<"<", "b", "r", ">">>

(***************************************************************************)
(* TrailingSlashPreprocessor.run: the body of the for loop.                *)
(***************************************************************************)
\* the number of backslashes a string ends with
RECURSIVE TrailingBackslashes(_)
TrailingBackslashes(s) ==
    IF s # <<>> /\ s[Len(s)] = "\\"
    THEN 1 + TrailingBackslashes(SubSeq(s, 1, Len(s) - 1))
    ELSE 0

TransformLineKeepSlash(line) ==
    IF endswith(line, <<"\\">>) THEN line \o BreakMarker ELSE line

TransformLineNoMarker(line) ==
    IF endswith(line, <<"\\">>) THEN DropLast(line) ELSE line

TransformLineOddOnly(line) ==
    IF TrailingBackslashes(line) % 2 = 1 THEN DropLast(line) \o BreakMarker ELSE line

ListPrepend(l, x) == <<x>> \o l

\* if line.endswith('\\'): new_line = line[:-1] + "<br>" else: line
\* (the value the iteration appends to new_lines)
TransformLine(line) ==
    IF endswith(line, <<"\\">>) THEN DropLast(line) \o BreakMarker ELSE line

\* list.append
ListAppend(l, x) == Append(l, x)

\* run as a function of its argument: the loop unrolled from index k on
RECURSIVE RunFrom(_, _, _)
RunFrom(ls, k, acc) ==
    IF k > Len(ls) THEN acc
    ELSE RunFrom(ls, k + 1, ListAppend(acc, TransformLine(ls[k])))

run(ls) == RunFrom(ls, 1, <<>>)

(***************************************************************************)
(* The extension.                                                          *)
(***************************************************************************)
PreprocessorName == "trailing_slash_preprocessor"
Priority == 25

\* makeExtension(**kwargs): the keyword arguments are forwarded to the
\* constructor of TrailingSlashExtension, which the class does not override.
makeExtension(kwargs) ==
    /\ ext' = <<[class |-> "TrailingSlashExtension", kwargs |-> kwargs]>>
    /\ UNCHANGED <<preprocessors, pc, lines, new_lines, i>>

\* TrailingSlashExtension.extendMarkdown(md): one register call; an entry
\* registered under a name replaces the entry of that name.
extendMarkdown ==
    /\ ext # <<>>
    /\ preprocessors' =
           {r \in preprocessors : r.name # PreprocessorName}
           \cup {[item |-> "TrailingSlashPreprocessor",
                  name |-> PreprocessorName,
                  priority |-> Priority]}
    /\ UNCHANGED <<ext, pc, lines, new_lines, i>>

Registered == \E r \in preprocessors : r.name = PreprocessorName

(***************************************************************************)
(* One invocation of run by thread t.                                      *)
(***************************************************************************)
RunEnterRetain(t, doc) ==
    /\ Registered
    /\ pc[t] # "loop"
    /\ lines' = [lines EXCEPT ![t] = doc]
    /\ i' = [i EXCEPT ![t] = 1]
    /\ pc' = [pc EXCEPT ![t] = "loop"]
    /\ UNCHANGED <<ext, preprocessors, new_lines>>

RunLoopShared(t) ==
    /\ pc[t] = "loop"
    /\ i[t] <= Len(lines[t])
    /\ new_lines' = [u \in DOMAIN new_lines |->
                         ListAppend(new_lines[u], TransformLine(lines[t][i[t]]))]
    /\ i' = [i EXCEPT ![t] = @ + 1]
    /\ UNCHANGED <<ext, preprocessors, pc, lines>>

\* the host calls run(lines) on the registered preprocessor; new_lines = []
RunEnter(t, doc) ==
    /\ Registered
    /\ pc[t] # "loop"
    /\ lines' = [lines EXCEPT ![t] = doc]
    /\ new_lines' = [new_lines EXCEPT ![t] = <<>>]
    /\ i' = [i EXCEPT ![t] = 1]
    /\ pc' = [pc EXCEPT ![t] = "loop"]
    /\ UNCHANGED <<ext, preprocessors>>

\* one iteration of: for line in lines
RunLoop(t) ==
    /\ pc[t] = "loop"
    /\ i[t] <= Len(lines[t])
    /\ new_lines' = [new_lines EXCEPT ![t] = ListAppend(@, TransformLine(lines[t][i[t]]))]
    /\ i' = [i EXCEPT ![t] = @ + 1]
    /\ UNCHANGED <<ext, preprocessors, pc, lines>>

\* the loop is exhausted: return new_lines
RunReturn(t) ==
    /\ pc[t] = "loop"
    /\ i[t] > Len(lines[t])
    /\ pc' = [pc EXCEPT ![t] = "done"]
    /\ UNCHANGED <<ext, preprocessors, lines, new_lines, i>>

(***************************************************************************)
(* Specifications.  Spec: one thread, documents from Docs.  SpecConc: two  *)
(* threads running the registered preprocessor on documents of their own.  *)
(***************************************************************************)
InitThreads(T) ==
    /\ ext = <<>>
    /\ preprocessors = {}
    /\ pc = [t \in T |-> "idle"]
    /\ lines = [t \in T |-> <<>>]
    /\ new_lines = [t \in T |-> <<>>]
    /\ i = [t \in T |-> 1]

\* The documents the host passes to run: any document on a thread's first
\* pass; afterwards the document it passed before, or the one run returned.
NextDocs(t, docs) == IF pc[t] = "idle" THEN docs ELSE {lines[t], new_lines[t]}

Init == InitThreads({1})

Next ==
    \/ \E kwargs \in KwargsSet : makeExtension(kwargs)
    \/ extendMarkdown
    \/ \E t \in DOMAIN pc : \E doc \in NextDocs(t, Docs) : RunEnter(t, doc)
    \/ \E t \in DOMAIN pc : RunLoop(t)
    \/ \E t \in DOMAIN pc : RunReturn(t)

Spec == Init /\ [][Next]_vars

InitConc == InitThreads({1, 2})

NextConc ==
    \/ \E kwargs \in KwargsSet : makeExtension(kwargs)
    \/ extendMarkdown
    \/ \E t \in DOMAIN pc : \E doc \in NextDocs(t, ConcDocs) : RunEnter(t, doc)
    \/ \E t \in DOMAIN pc : RunLoop(t)
    \/ \E t \in DOMAIN pc : RunReturn(t)

SpecConc == InitConc /\ [][NextConc]_vars

TypeOK ==
    /\ Len(ext) <= 1
    /\ \A t \in DOMAIN pc :
        /\ pc[t] \in {"idle", "loop", "done"}
        /\ i[t] \in 1..(Len(lines[t]) + 1)
        /\ Len(new_lines[t]) <= Len(lines[t])


(***************************************************************************)
(* Properties of run.  A line "ends with a backslash" when it is not empty *)
(* and its last character is the backslash.                                *)
(***************************************************************************)
Returned(t) == pc[t] = "done"

LastIsBackslash(L) == Len(L) >= 1 /\ L[Len(L)] = "\\"

Backslashes(n) == [j \in 1..n |-> "\\"]

\* C1: when run has returned, every input line P + "\" has become P + "<br>"
\* at the same index: the last character removed, the fixed marker appended.
TrailingBackslashReplaced ==
    \A t \in DOMAIN pc :
        Returned(t) =>
            \A k \in 1..Len(lines[t]) :
                LET L == lines[t][k]
                IN  LastIsBackslash(L) =>
                        /\ k <= Len(new_lines[t])
                        /\ new_lines[t][k] = SubSeq(L, 1, Len(L) - 1) \o <<"<", "b", "r", ">">>

TrailingBackslashReplacedWitness ==
    \E t \in DOMAIN pc :
        /\ Returned(t)
        /\ lines[t] = << <<"a", " ", "\\">>, <<"\\">> >>
        /\ new_lines[t] = << <<"a", " ", "<", "b", "r", ">">>, <<"<", "b", "r", ">">> >>

\* C2: when run has returned, every input line whose last character is not a
\* backslash (the empty line and backslash-space included) is in the output
\* unchanged at the same index.
OtherLinesUnchanged ==
    \A t \in DOMAIN pc :
        Returned(t) =>
            \A k \in 1..Len(lines[t]) :
                ~LastIsBackslash(lines[t][k]) =>
                    /\ k <= Len(new_lines[t])
                    /\ new_lines[t][k] = lines[t][k]

OtherLinesUnchangedWitness ==
    \E t \in DOMAIN pc :
        /\ Returned(t)
        /\ lines[t] = << <<"\\", " ">>, <<>>, <<"a">> >>
        /\ new_lines[t] = lines[t]

\* C3: run returns as many elements as it was given, the element at index k
\* being the transform of input line k; the empty document gives the empty one.
LengthAndOrderPreserved ==
    \A t \in DOMAIN pc :
        Returned(t) =>
            /\ Len(new_lines[t]) = Len(lines[t])
            /\ \A k \in 1..Len(lines[t]) : new_lines[t][k] = TransformLine(lines[t][k])
            /\ (lines[t] = <<>> => new_lines[t] = <<>>)

LengthAndOrderPreservedWitness ==
    \E t \in DOMAIN pc :
        /\ Returned(t)
        /\ lines[t] = << <<"a", "\\">>, <<"a">>, <<"\\">> >>
        /\ new_lines[t] = << <<"a", "<", "b", "r", ">">>, <<"a">>, <<"<", "b", "r", ">">> >>

\* C4: a line P followed by n >= 2 backslashes becomes P, n-1 backslashes and
\* "<br>": only the final backslash goes, whether n is odd or even.
OnlyFinalBackslashStripped ==
    \A t \in DOMAIN pc :
        Returned(t) =>
            \A k \in 1..Len(lines[t]) :
                LET L == lines[t][k]
                    n == TrailingBackslashes(L)
                IN  n >= 2 =>
                        /\ k <= Len(new_lines[t])
                        /\ new_lines[t][k] =
                               SubSeq(L, 1, Len(L) - n) \o Backslashes(n - 1) \o <<"<", "b", "r", ">">>

OnlyFinalBackslashStrippedWitness ==
    \E t \in DOMAIN pc :
        /\ Returned(t)
        /\ lines[t] = << <<"a", "\\", "\\", "\\">> >>
        /\ new_lines[t] = << <<"a", "\\", "\\", "<", "b", "r", ">">> >>

\* C5: run applied to what run returned gives it back: run(run(S)) = run(S).
RunIsIdempotent ==
    \A t \in DOMAIN pc : Returned(t) => run(new_lines[t]) = new_lines[t]

\* the second pass has happened: run was given its own output for a line that
\* ended with two backslashes, and has returned
RunIsIdempotentWitness ==
    \E t \in DOMAIN pc :
        /\ Returned(t)
        /\ lines[t] = << <<"a", "\\", "<", "b", "r", ">">>, <<"<", "b", "r", ">">> >>
        /\ new_lines[t] = lines[t]

\* C8: run leaves the list it was given as it was, and what it returns is a
\* function of that list alone, whatever invocations came before.
RunHasNoSideEffects ==
    [][\A t \in DOMAIN pc :
           /\ (pc[t] = "loop" => lines'[t] = lines[t])
           /\ (pc'[t] = "done" => new_lines'[t] = run(lines'[t]))]_vars

RunHasNoSideEffectsWitness ==
    \E t \in DOMAIN pc :
        /\ Returned(t)
        /\ lines[t] = << <<"\\">>, <<"a", "\\">> >>
        /\ new_lines[t] = << <<"<", "b", "r", ">">>, <<"a", "<", "b", "r", ">">> >>

\* C9: under every interleaving of the steps of concurrent invocations, each
\* invocation has built, and returns, what it would build alone.
ConcurrentRunsIndependent ==
    \A t \in DOMAIN pc :
        /\ (pc[t] = "loop" => new_lines[t] = run(SubSeq(lines[t], 1, i[t] - 1)))
        /\ (pc[t] = "done" => new_lines[t] = run(lines[t]))

\* two invocations on different documents, each halfway through its loop
ConcurrentRunsIndependentWitness ==
    /\ DOMAIN pc = {1, 2}
    /\ pc[1] = "loop" /\ pc[2] = "loop"
    /\ lines[1] = << <<"\\">>, <<"a">> >>
    /\ lines[2] = << <<"a">>, <<"\\">> >>
    /\ i[1] = 2 /\ i[2] = 2
    /\ new_lines[1] = << <<"<", "b", "r", ">">> >>
    /\ new_lines[2] = << <<"a">> >>

\* C10: no line run returns has a backslash as its last character.
NoTrailingBackslashInOutput ==
    \A t \in DOMAIN pc :
        Returned(t) =>
            \A k \in 1..Len(new_lines[t]) : ~LastIsBackslash(new_lines[t][k])

NoTrailingBackslashInOutputWitness ==
    \E t \in DOMAIN pc :
        /\ Returned(t)
        /\ lines[t] = << <<"\\", "\\">>, <<"a", "\\">> >>
        /\ \A k \in 1..Len(new_lines[t]) : ~LastIsBackslash(new_lines[t][k])

====
